---------------------------- MODULE Spec2Model ----------------------------
(***************************************************************************)
(* A model of ufits-OTU_cluster.py: the OTU clustering pipeline script.    *)
(*                                                                         *)
(* The script is one straight-line program.  Five specifications cover it: *)
(*   Spec       the orchestration of the stages (lines 106-338)            *)
(*   SpecDerep  dereplicate (lines 65-78)                                  *)
(*   SpecClean  the padding cleanup loop (lines 171-183)                   *)
(*   SpecAnnot  the mock annotation (lines 218-241)                        *)
(*   SpecStats  the mock accuracy statistics (lines 272-322)               *)
(* Text is modelled as sequences of one-character strings, so that         *)
(* splitting, stripping, joining, str() and int() are computed.            *)
(***************************************************************************)
EXTENDS Integers, Sequences, FiniteSets, TLC

VARIABLES
    \* ---- orchestration ----
    pc,            \* position of the script
    args,          \* the parsed command line flags
    size,          \* os.path.getsize(args.FASTQ), as <<high limb, low limb>>
    usearchFound,  \* whether the usearch executable can be started
    files,         \* the files that exist on disk
    ran,           \* the stages executed so far, in order
    unoise_out,    \* the script's variable unoise_out
    uchime_out,    \* the script's variable uchime_out ("current OTU file")
    table,         \* the content of the OTU table file once written
    result,        \* the script's variable result
    statsDone,     \* whether the statistics block ran to its end
    exitcode,      \* -1 while running, then the exit status of the process
    \* ---- dereplicate ----
    dpc, dreads, seqs, dout,
    \* ---- padding cleanup ----
    cpc, craw, cout,
    \* ---- mock annotation ----
    apc, uc, annotate_dict, fasta, aout,
    \* ---- mock statistics ----
    spc, stable, results, num_otus, mock_found, good_otu, bad_otu, spurious,
    printed

pipeVars  == <<pc, args, size, usearchFound, files, ran, unoise_out,
               uchime_out, table, result, statsDone, exitcode>>
derepVars == <<dpc, dreads, seqs, dout>>
cleanVars == <<cpc, craw, cout>>
annotVars == <<apc, uc, annotate_dict, fasta, aout>>
statsVars == <<spc, stable, results, num_otus, mock_found, good_otu, bad_otu,
               spurious, printed>>
vars == <<pipeVars, derepVars, cleanVars, annotVars, statsVars>>

-----------------------------------------------------------------------------
(* Text helpers: Python's str operations on sequences of characters.       *)

Digits == <<"0", "1", "2", "3", "4", "5", "6", "7", "8", "9">>

DigitVal(c) == (CHOOSE i \in 1..10 : Digits[i] = c) - 1

IsDigit(c) == \E i \in 1..10 : Digits[i] = c

RECURSIVE Str(_)
\* str(n) for n >= 0
Str(n) == IF n < 10 THEN <<Digits[n + 1]>>
          ELSE Str(n \div 10) \o <<Digits[(n % 10) + 1]>>

RECURSIVE ParseInt(_)
\* int(s) for a non-empty string of digits
ParseInt(s) == IF Len(s) = 1 THEN DigitVal(s[1])
               ELSE ParseInt(SubSeq(s, 1, Len(s) - 1)) * 10 + DigitVal(s[Len(s)])

IsNumber(s) == Len(s) > 0 /\ \A i \in 1..Len(s) : IsDigit(s[i])

\* the positions of character c in s
Positions(s, c) == {i \in 1..Len(s) : s[i] = c}

Max(S) == CHOOSE x \in S : \A y \in S : y <= x

\* s.split(c)[-1]
SplitLast(s, c) ==
    IF Positions(s, c) = {} THEN s
    ELSE SubSeq(s, Max(Positions(s, c)) + 1, Len(s))

\* s.rsplit(c, 1)[0]
RSplitHead(s, c) ==
    IF Positions(s, c) = {} THEN s
    ELSE SubSeq(s, 1, Max(Positions(s, c)) - 1)

RECURSIVE RStrip(_, _)
\* s.rstrip(c)
RStrip(s, c) == IF Len(s) > 0 /\ s[Len(s)] = c
                THEN RStrip(SubSeq(s, 1, Len(s) - 1), c)
                ELSE s

\* sub in s
Contains(s, sub) ==
    \E i \in 1..(Len(s) - Len(sub) + 1) : SubSeq(s, i, i + Len(sub) - 1) = sub

StartsWith(s, c) == Len(s) > 0 /\ s[1] = c

RECURSIVE Sum(_)
Sum(s) == IF s = <<>> THEN 0 ELSE s[1] + Sum(Tail(s))

-----------------------------------------------------------------------------
(* Idle predicates: the parts of the state a specification does not use.   *)

PipeIdle ==
    /\ pc = "idle" /\ args = <<>> /\ size = <<0, 0>> /\ usearchFound = FALSE
    /\ files = {} /\ ran = <<>> /\ unoise_out = "" /\ uchime_out = ""
    /\ table = <<>> /\ result = "" /\ statsDone = FALSE /\ exitcode = -1

DerepIdle == dpc = "idle" /\ dreads = <<>> /\ seqs = <<>> /\ dout = <<>>

CleanIdle == cpc = "idle" /\ craw = <<>> /\ cout = <<>>

AnnotIdle ==
    /\ apc = "idle" /\ uc = <<>> /\ annotate_dict = <<>> /\ fasta = <<>>
    /\ aout = <<>>

StatsIdle ==
    /\ spc = "idle" /\ stable = <<>> /\ results = <<>> /\ num_otus = 0
    /\ mock_found = 0 /\ good_otu = <<>> /\ bad_otu = <<>> /\ spurious = 0
    /\ printed = <<>>

-----------------------------------------------------------------------------
(* dereplicate(input, output), lines 65-78.                                *)

\* the longest read file explored
MaxReads == 10

\* rec.id of the records SeqIO.parse yields: one plain identifier, and one
\* that carries its own '=' and ends in ';' as demultiplexed labels do
IdPlain == <<"r", "1">>
IdLabel == <<"b", "=", "2", ";">>

\* the records of the filtered FASTQ file: [id, seq]
Reads == { [id |-> IdPlain, seq |-> <<"G">>],
           [id |-> IdLabel, seq |-> <<"G">>],
           [id |-> IdLabel, seq |-> <<"G", "T">>] }

\* d[k] = v on a dict
DictSet(d, k, v) == [x \in (DOMAIN d) \cup {k} |-> IF x = k THEN v ELSE d[x]]

\* line 71: seqs[sequence] = rec.id + 'size=1;'
DerepFirst(id) == id \o <<"s", "i", "z", "e", "=", "1", ";">>

\* line 73: int(seqs[sequence].split('=')[-1].rstrip(';'))
DerepCount(header) == ParseInt(RStrip(SplitLast(header, "="), ";"))

\* a slip that forgets to count the repeat
DerepRepeatNoCount(header) == header

\* a slip that cuts the header at its first '=' instead of its last
DerepRepeatFirstEq(header) ==
    SubSeq(header, 1, (CHOOSE i \in Positions(header, "=") :
                          \A j \in Positions(header, "=") : i <= j) - 1)
        \o <<"=">> \o Str(DerepCount(header) + 1) \o <<";">>

\* lines 73-75: the header of a sequence seen once more
DerepRepeat(header) ==
    RSplitHead(header, "=") \o <<"=">> \o Str(DerepCount(header) + 1) \o <<";">>

derepOthers == <<pipeVars, cleanVars, annotVars, statsVars>>

DerepInit ==
    /\ dpc = "loop" /\ dreads = <<>> /\ seqs = <<>> /\ dout = <<>>

\* lines 68-75: one iteration of the loop over the records
DerepRecord ==
    /\ dpc = "loop"
    /\ Len(dreads) < MaxReads
    /\ \E rec \in Reads :
        /\ dreads' = Append(dreads, rec)
        /\ seqs' = IF rec.seq \notin DOMAIN seqs
                   THEN DictSet(seqs, rec.seq, DerepFirst(rec.id))
                   ELSE DictSet(seqs, rec.seq, DerepRepeat(seqs[rec.seq]))
    /\ UNCHANGED <<dpc, dout, derepOthers>>

\* all orders in which a dict's keys may be iterated
KeyOrders(d) ==
    { o \in [1..Cardinality(DOMAIN d) -> DOMAIN d] :
        \A i, j \in DOMAIN o : i # j => o[i] # o[j] }

\* lines 76-78: the records are written, one per key, in the dict's order
DerepWrite ==
    /\ dpc = "loop"
    /\ \E o \in KeyOrders(seqs) :
        dout' = [i \in DOMAIN o |->
                    << <<">">> \o seqs[o[i]] \o <<"\n">>, o[i] \o <<"\n">> >>]
    /\ dpc' = "done"
    /\ UNCHANGED <<dreads, seqs, derepOthers>>

DerepNext == DerepRecord \/ DerepWrite

\* ---- what the claims are stated in ----

\* the number of reads so far that carry sequence s
ReadCount(s) == Cardinality({i \in 1..Len(dreads) : dreads[i].seq = s})

\* the identifier of the first read that carried sequence s
FirstId(s) ==
    dreads[CHOOSE i \in 1..Len(dreads) :
              /\ dreads[i].seq = s
              /\ \A j \in 1..Len(dreads) : dreads[j].seq = s => i <= j].id

DistinctSeqs == {dreads[i].seq : i \in 1..Len(dreads)}

PairwiseDistinct ==
    \A i, j \in 1..Len(dreads) : i # j => dreads[i].seq # dreads[j].seq

\* the size annotation of a written record, read as usearch -sizein reads it:
\* the digits between the last '=' and the closing ';' of the header line
WrittenSize(rec) ==
    LET h == SubSeq(rec[1], 1, Len(rec[1]) - 1)
        d == SplitLast(SubSeq(h, 1, Len(h) - 1), "=")
    IN IF h[Len(h)] = ";" /\ IsNumber(d) THEN ParseInt(d) ELSE -1

WrittenSizes == [i \in DOMAIN dout |-> WrittenSize(dout[i])]

\* C6: once dereplicate has written its output, there is exactly one record
\* per distinct sequence of the input, the size counts of the records sum to
\* the number of reads, and the number of records is at most the number of
\* reads, with equality exactly when the reads are pairwise distinct.
C6_DerepCounts ==
    dpc = "done" =>
        /\ \A s \in DistinctSeqs :
             Cardinality({i \in DOMAIN dout : dout[i][2] = s \o <<"\n">>}) = 1
        /\ Len(dout) = Cardinality(DistinctSeqs)
        /\ Sum(WrittenSizes) = Len(dreads)
        /\ Len(dout) <= Len(dreads)
        /\ (Len(dout) = Len(dreads)) <=> PairwiseDistinct

C6_Witness ==
    /\ dpc = "done"
    /\ Len(dreads) = MaxReads
    /\ Len(dout) = 2
    /\ \E i \in DOMAIN dout : WrittenSize(dout[i]) >= 9

\* C10 as stated: the stored header is the first read's identifier followed
\* by ';size=<n>;' with n the number of reads seen with that sequence.
C10_HeaderWithSemicolon ==
    \A s \in DOMAIN seqs :
        seqs[s] = FirstId(s) \o <<";", "s", "i", "z", "e", "=">>
                     \o Str(ReadCount(s)) \o <<";">>

\* C10 amended: the stored header is the first read's identifier followed
\* directly by 'size=<n>;' (no ';' is put between them), with n the number
\* of reads seen with that sequence; a repeat changes the count only.
C10_HeaderFirstIdSize ==
    /\ DOMAIN seqs = DistinctSeqs
    /\ \A s \in DOMAIN seqs :
        seqs[s] = FirstId(s) \o <<"s", "i", "z", "e", "=">>
                     \o Str(ReadCount(s)) \o <<";">>

C10_Witness ==
    \E s \in DOMAIN seqs :
        /\ ReadCount(s) >= 10
        /\ \E i \in 1..Len(dreads) : dreads[i].seq = s /\ dreads[i].id # FirstId(s)

InitDerep == DerepInit /\ PipeIdle /\ CleanIdle /\ AnnotIdle /\ StatsIdle

SpecDerep == InitDerep /\ [][DerepNext]_vars

-----------------------------------------------------------------------------
(* The padding cleanup loop, lines 171-183.                                *)

\* the longest raw OTU file explored, in lines
MaxLines == 3

\* the characters of the raw OTU file: the header marker, bases, a
\* lower-case base and an ambiguity/padding symbol
CleanChars == {">", "G", "C", "c", "N"}

\* the text of a line before its line break: up to two characters
LineBodies ==
    {<<>>} \cup {<<a>> : a \in CleanChars}
           \cup {<<a, b>> : a, b \in CleanChars}

Bases == {"G", "A", "T", "C"}

IsBase(c) == c \in Bases

IsHeader(line) == StartsWith(line, ">")

\* line 180: re.sub('[^GATC]', "", line); line 181: line + '\n'
CleanLine(line) == SelectSeq(line, IsBase) \o <<"\n">>

\* a slip that writes the line whatever is left of it
KeepLineAlways(line) == TRUE

\* line 182: if line != '\n'
KeepLine(line) == line # <<"\n">>

\* lines 177-183: what one line of the input adds to the output
CleanWrite(line) ==
    IF IsHeader(line) THEN <<line>>
    ELSE IF KeepLine(CleanLine(line)) THEN <<CleanLine(line)>> ELSE <<>>

cleanOthers == <<pipeVars, derepVars, annotVars, statsVars>>

CleanInit == cpc = "loop" /\ craw = <<>> /\ cout = <<>>

\* lines 176-183: one iteration over a line that ends in a line break
CleanRead ==
    /\ cpc = "loop"
    /\ Len(craw) < MaxLines
    /\ \E body \in LineBodies :
        LET line == body \o <<"\n">> IN
        /\ craw' = Append(craw, line)
        /\ cout' = cout \o CleanWrite(line)
    /\ UNCHANGED <<cpc, cleanOthers>>

\* lines 176-183: the last line of a file that does not end in a line break
CleanReadLast ==
    /\ cpc = "loop"
    /\ Len(craw) < MaxLines
    /\ \E line \in LineBodies \ {<<>>} :
        /\ craw' = Append(craw, line)
        /\ cout' = cout \o CleanWrite(line)
    /\ cpc' = "done"
    /\ UNCHANGED cleanOthers

\* the end of the input file
CleanEnd ==
    /\ cpc = "loop"
    /\ cpc' = "done"
    /\ UNCHANGED <<craw, cout, cleanOthers>>

CleanNext == CleanRead \/ CleanReadLast \/ CleanEnd

\* C7: the header lines of the output are the header lines of the input,
\* verbatim and in order; every other output line is a non-empty run of
\* the characters G, A, T, C, closed by a line break.
C7_PaddingCleanup ==
    /\ SelectSeq(cout, IsHeader) = SelectSeq(craw, IsHeader)
    /\ \A i \in 1..Len(cout) :
         ~IsHeader(cout[i]) =>
            /\ Len(cout[i]) >= 2
            /\ cout[i][Len(cout[i])] = "\n"
            /\ \A k \in 1..(Len(cout[i]) - 1) : cout[i][k] \in Bases

C7_Witness ==
    /\ cpc = "done"
    /\ \E i \in 1..Len(craw) : IsHeader(craw[i])
    /\ \E i \in 1..Len(craw) : craw[i] = <<"N", "\n">>
    /\ \E i \in 1..Len(craw) : craw[i] = <<"c", "G", "\n">>
    /\ Len(cout) = 2 /\ cout[Len(cout)] = <<"G", "\n">>

InitClean == CleanInit /\ PipeIdle /\ DerepIdle /\ AnnotIdle /\ StatsIdle

SpecClean == InitClean /\ [][CleanNext]_vars

-----------------------------------------------------------------------------
(* The mock annotation, lines 218-241.                                     *)

\* the longest mapping file and the longest OTU file explored, in lines
MaxUc == 2
MaxFasta == 3

Whitespace == {" ", "\t", "\n"}

\* the index of the first whitespace character of s, or Len(s) + 1
FirstSpace(s) ==
    IF \E i \in 1..Len(s) : s[i] \in Whitespace
    THEN CHOOSE i \in 1..Len(s) :
            s[i] \in Whitespace /\ \A j \in 1..(i - 1) : s[j] \notin Whitespace
    ELSE Len(s) + 1

RECURSIVE Tokens(_)
\* s.split()
Tokens(s) ==
    IF s = <<>> THEN <<>>
    ELSE IF Head(s) \in Whitespace THEN Tokens(Tail(s))
    ELSE <<SubSeq(s, 1, FirstSpace(s) - 1)>>
            \o Tokens(SubSeq(s, FirstSpace(s), Len(s)))

RECURSIVE Join(_)
\* "".join(list)
Join(l) == IF l = <<>> THEN <<>> ELSE Head(l) \o Join(Tail(l))

\* the last two fields of the rows of the mapping file: the OTU label that
\* was searched and the mock label it matched ("*" for no match)
UcRows == { <<q, t>> : q \in {<<"a">>, <<"b">>},
                       t \in {<<"*">>, <<"M">>, <<"K">>} }

\* the lines of the OTU file: headers of one token, of two tokens, with
\* leading blanks, with no token at all, and a sequence line
FastaLines ==
    { <<">", "a", "\n">>, <<">", "b", "\n">>, <<">", "a", "b", "\n">>,
      <<">", "a", " ", "b", "\n">>, <<">", " ", "b", "\n">>, <<">", "\n">>,
      <<"G", "\n">> }

\* lines 231-237: the header line written for a header line of the input
AnnotHeader(dict, line) ==
    LET toks == Tokens(Tail(line)) IN
    IF toks[1] \in DOMAIN dict
    THEN <<">">> \o dict[toks[1]] \o <<"\n">>
    ELSE <<">">> \o Join(toks) \o <<"\n">>

annotOthers == <<pipeVars, derepVars, cleanVars, statsVars>>

AnnotInit ==
    /\ apc = "dict" /\ uc = <<>> /\ annotate_dict = <<>> /\ fasta = <<>>
    /\ aout = <<>>

\* lines 222-224: one row of the mapping file
AnnotDictRow ==
    /\ apc = "dict"
    /\ Len(uc) < MaxUc
    /\ \E row \in UcRows :
        /\ uc' = Append(uc, row)
        /\ annotate_dict' = IF row[2] # <<"*">>
                            THEN DictSet(annotate_dict, row[1], row[2])
                            ELSE annotate_dict
    /\ UNCHANGED <<apc, fasta, aout, annotOthers>>

\* lines 226-228: the mapping file is read, the OTU file is opened
AnnotOpen ==
    /\ apc = "dict"
    /\ apc' = "fasta"
    /\ UNCHANGED <<uc, annotate_dict, fasta, aout, annotOthers>>

\* lines 229-239: one line of the OTU file
AnnotLine ==
    /\ apc = "fasta"
    /\ Len(fasta) < MaxFasta
    /\ \E line \in FastaLines :
        /\ IsHeader(line) => Tokens(Tail(line)) # <<>>
        /\ fasta' = Append(fasta, line)
        /\ aout' = Append(aout, IF IsHeader(line)
                                THEN AnnotHeader(annotate_dict, line)
                                ELSE line)
    /\ UNCHANGED <<apc, uc, annotate_dict, annotOthers>>

\* line 233 on a header without any token: line[0] raises IndexError
AnnotLineRaises ==
    /\ apc = "fasta"
    /\ Len(fasta) < MaxFasta
    /\ \E line \in FastaLines :
        /\ IsHeader(line) /\ Tokens(Tail(line)) = <<>>
        /\ fasta' = Append(fasta, line)
    /\ apc' = "raised"
    /\ UNCHANGED <<uc, annotate_dict, aout, annotOthers>>

\* lines 240-241: the end of the OTU file
AnnotClose ==
    /\ apc = "fasta"
    /\ apc' = "done"
    /\ UNCHANGED <<uc, annotate_dict, fasta, aout, annotOthers>>

AnnotNext ==
    AnnotDictRow \/ AnnotOpen \/ AnnotLine \/ AnnotLineRaises \/ AnnotClose

\* C4: every header line of the input that has a first token is written as
\* '>' and the mapped label when that token is a key of the dictionary, and
\* otherwise as '>' and exactly that first token; it is never blank; and a
\* sequence line is written unchanged.
C4_HeaderFirstToken ==
    \A i \in 1..Len(aout) :
        IF IsHeader(fasta[i])
        THEN LET tok == Tokens(Tail(fasta[i]))[1] IN
             /\ aout[i] = <<">">> \o (IF tok \in DOMAIN annotate_dict
                                     THEN annotate_dict[tok] ELSE tok)
                                \o <<"\n">>
             /\ aout[i] # <<">", "\n">>
        ELSE aout[i] = fasta[i]

\* what the code writes instead: every token of an unmapped header, joined
AnnotWritesJoinedTokens ==
    \A i \in 1..Len(aout) :
        IF IsHeader(fasta[i])
        THEN LET toks == Tokens(Tail(fasta[i])) IN
             aout[i] = <<">">> \o (IF toks[1] \in DOMAIN annotate_dict
                                  THEN annotate_dict[toks[1]] ELSE Join(toks))
                                \o <<"\n">>
        ELSE aout[i] = fasta[i]

InitAnnot == AnnotInit /\ PipeIdle /\ DerepIdle /\ CleanIdle /\ StatsIdle

SpecAnnot == InitAnnot /\ [][AnnotNext]_vars

-----------------------------------------------------------------------------
(* The mock accuracy statistics, lines 260-322.                            *)

\* the longest OTU table explored, in data rows
MaxRows == 4

\* args.mock when a mock label is given
MockLabel == "MockBC"

\* line 265: the label is looked up among the columns of the first line
MockInHeader(header, mock) == \E i \in 1..Len(header) : header[i] = mock

\* lines 278-282: the indices of the columns kept, in column order
KeepColumns(header, mock) ==
    LET idx == {i \in 1..Len(header) : header[i] \in {"OTUId", mock}}
    IN SortSeq([k \in 1..Cardinality(idx) |->
                  CHOOSE i \in idx : Cardinality({j \in idx : j < i}) = k - 1],
               LAMBDA a, b : a < b)

\* line 284: tuple([row[i] for i in headers])
KeepCells(row, keep) == [k \in 1..Len(keep) |-> row[keep[k]]]

\* a slip that counts a row of abundance 0 too
IsDetectedOrZero(cell) == ParseInt(cell) >= 0

\* line 290: int(row[1]) > 0
IsDetected(cell) == ParseInt(cell) > 0

OTU == <<"O", "T", "U">>

RECURSIVE Aggregate(_)
\* lines 285-296: the loop over the kept rows
Aggregate(rs) ==
    IF rs = <<>>
    THEN [num_otus |-> 0, mock_found |-> 0, good_otu |-> <<>>, bad_otu |-> <<>>]
    ELSE LET a == Aggregate(SubSeq(rs, 1, Len(rs) - 1))
             row == rs[Len(rs)]
         IN IF IsDetected(row[2])
            THEN [num_otus |-> a.num_otus + 1,
                  mock_found |-> IF ~Contains(row[1], OTU)
                                 THEN a.mock_found + 1 ELSE a.mock_found,
                  good_otu |-> IF ~Contains(row[1], OTU)
                               THEN Append(a.good_otu, ParseInt(row[2]))
                               ELSE a.good_otu,
                  bad_otu |-> IF Contains(row[1], OTU)
                              THEN Append(a.bad_otu, ParseInt(row[2]))
                              ELSE a.bad_otu]
            ELSE a

\* line 306: sorted(good_otu, key=int)
Ascending(s) == SortSeq(s, LAMBDA a, b : a < b)

\* line 312: sorted(bad_otu, key=int, reverse=True)
Descending(s) == SortSeq(s, LAMBDA a, b : a > b)

\* line 308 indexes good_otu[2] whatever the length of the list
GoodReportRaises(found) == found # 0 /\ found < 3

\* the tables explored: the OTU identifiers are an OTU label, a mock label
\* and a mock label that itself holds the letters OTU
StatsHeaders == { <<"OTUId", MockLabel>>, <<"OTUId", "S1", MockLabel>> }
StatsIds == { <<"O", "T", "U", "_", "1">>, <<"P", "s">>, <<"m", "O", "T", "U">> }
StatsCounts == { <<"0">>, <<"5">>, <<"1", "2">> }

\* the data rows that fit a header
StatsRows(header) ==
    IF Len(header) = 2
    THEN { <<id, n>> : id \in StatsIds, n \in StatsCounts }
    ELSE { <<id, <<"7">>, n>> : id \in StatsIds, n \in StatsCounts }

statsOthers == <<pipeVars, derepVars, cleanVars, annotVars>>

StatsInit ==
    /\ spc = "rows"
    /\ \E h \in StatsHeaders : stable = [mock |-> MockLabel, header |-> h]
    /\ results = <<>> /\ num_otus = 0 /\ mock_found = 0 /\ good_otu = <<>>
    /\ bad_otu = <<>> /\ spurious = 0 /\ printed = <<>>

\* lines 277-284: one data row of the table
StatsRow ==
    /\ spc = "rows"
    /\ Len(results) < MaxRows
    /\ \E row \in StatsRows(stable.header) :
        results' = Append(results,
                     KeepCells(row, KeepColumns(stable.header, stable.mock)))
    /\ UNCHANGED <<spc, stable, num_otus, mock_found, good_otu, bad_otu,
                   spurious, printed, statsOthers>>

\* lines 285-304: the counts, and the first lines of the report
StatsAggregate ==
    /\ spc = "rows"
    /\ LET a == Aggregate(results) IN
        /\ num_otus' = a.num_otus
        /\ mock_found' = a.mock_found
        /\ good_otu' = a.good_otu
        /\ bad_otu' = a.bad_otu
        /\ spurious' = a.num_otus - a.mock_found
        /\ printed' = <<<<"detected", a.num_otus>>, <<"real", a.mock_found>>>>
    /\ spc' = "good"
    /\ UNCHANGED <<stable, results, statsOthers>>

\* lines 305-310: the report on the real OTUs
StatsReportGood ==
    /\ spc = "good"
    /\ ~GoodReportRaises(mock_found)
    /\ IF mock_found # 0
       THEN LET g == Ascending(good_otu) IN
            /\ good_otu' = g
            /\ printed' = printed \o
                 << <<"range", g[Len(g)], g[1]>>, <<"lowest", g[1], g[2], g[3]>>,
                    <<"reads", Sum(good_otu)>>, <<"spurious", spurious>> >>
       ELSE /\ good_otu' = good_otu
            /\ printed' = Append(printed, <<"spurious", spurious>>)
    /\ spc' = "bad"
    /\ UNCHANGED <<stable, results, num_otus, mock_found, bad_otu, spurious,
                   statsOthers>>

\* lines 305-308 when one or two real OTUs were found: good_otu[2] raises
\* IndexError after the range was printed
StatsReportGoodRaises ==
    /\ spc = "good"
    /\ GoodReportRaises(mock_found)
    /\ LET g == Ascending(good_otu) IN
        /\ good_otu' = g
        /\ printed' = Append(printed, <<"range", g[Len(g)], g[1]>>)
    /\ spc' = "raised"
    /\ UNCHANGED <<stable, results, num_otus, mock_found, bad_otu, spurious,
                   statsOthers>>

\* lines 311-322: the report on the spurious OTUs
StatsReportBad ==
    /\ spc = "bad"
    /\ IF spurious # 0
       THEN LET b == Descending(bad_otu) IN
            /\ bad_otu' = b
            /\ printed' = printed \o
                 << <<"range", b[1], b[Len(b)]>>,
                    IF spurious >= 3 THEN <<"highest", b[1], b[2], b[3]>>
                    ELSE IF spurious = 2 THEN <<"highest", b[1], b[2]>>
                    ELSE <<"highest", b[1]>>,
                    <<"reads", Sum(b)>> >>
       ELSE UNCHANGED <<bad_otu, printed>>
    /\ spc' = "done"
    /\ UNCHANGED <<stable, results, num_otus, mock_found, good_otu, spurious,
                   statsOthers>>

StatsNext ==
    \/ StatsRow \/ StatsAggregate \/ StatsReportGood \/ StatsReportGoodRaises
    \/ StatsReportBad

\* C3: the evaluation of a table whose header holds the mock label never
\* raises, whatever the numbers of real and spurious OTUs are: with one or
\* two entries in a list it reports the values that exist.
C3_EvaluationNeverRaises == spc # "raised"

\* the rows of the table that are counted
DetectedRows == {i \in 1..Len(results) : ParseInt(results[i][2]) > 0}

\* C8: once the counts are made, num_otus is the number of rows of positive
\* abundance, mock_found the number of them whose identifier does not hold
\* 'OTU' (the length of good_otu), spurious the number of them whose
\* identifier holds 'OTU' (the length of bad_otu), and
\* num_otus = mock_found + spurious.
C8_CountsAddUp ==
    spc \in {"good", "bad", "done", "raised"} =>
        /\ num_otus = mock_found + spurious
        /\ num_otus = Cardinality(DetectedRows)
        /\ mock_found = Cardinality({i \in DetectedRows :
                                        ~Contains(results[i][1], OTU)})
        /\ mock_found = Len(good_otu)
        /\ spurious = Cardinality({i \in DetectedRows :
                                      Contains(results[i][1], OTU)})
        /\ spurious = Len(bad_otu)

C8_Witness ==
    /\ spc = "good"
    /\ Len(results) = 4
    /\ \E i \in 1..Len(results) : results[i][2] = <<"0">>
    /\ \E i \in 1..Len(results) : results[i] = <<<<"m", "O", "T", "U">>, <<"1", "2">>>>
    /\ mock_found = 1 /\ spurious = 2 /\ num_otus = 3
    /\ Len(stable.header) = 3

InitStats == StatsInit /\ PipeIdle /\ DerepIdle /\ CleanIdle /\ AnnotIdle

SpecStats == InitStats /\ [][StatsNext]_vars

-----------------------------------------------------------------------------
(* The orchestration of the stages, lines 106-338.                         *)

\* File sizes exceed the integers of the model checker, so a size is kept
\* as <<high, low>> with value high * Limb + low and 0 <= low < Limb.
\* The limit of line 122, 4294967296, is Limb * Limb.
Limb == 65536

FourGiB == <<Limb, 0>>

\* the sizes explored: small files, and the sizes around the limit
Sizes == { <<0, 0>>, <<3, 7>>, <<Limb - 1, Limb - 1>>, FourGiB,
           <<Limb, 1>>, <<Limb + 9, 0>> }

\* a slip that lets a file of exactly the limit through
SizeAboveLimit(sz) ==
    sz[1] > FourGiB[1] \/ (sz[1] = FourGiB[1] /\ sz[2] > FourGiB[2])

\* line 122: size >= 4294967296
SizeTooLarge(sz) ==
    sz[1] > FourGiB[1] \/ (sz[1] = FourGiB[1] /\ sz[2] >= FourGiB[2])

\* the file names the script derives from args.out and args.maxee
FASTQ      == "FASTQ"
filter_out == "filter.fq"
derep_out  == "derep.fa"
denoised   == "denoised.fa"
sort_out   == "sort.fa"
otu_out    == "otus.fa"
otu_clean  == "clean.otus.fa"
uchime_fa  == "uchime.otus.fa"
mock_out   == "mockmap.uc"
otu_new    == "mock.otus.fa"
uc_out     == "mapping.uc"
otu_table  == "otu_table.txt"

\* What a call of the external engine (usearch, or lib/uc2otutable.py) may
\* do: return 0 or not, and write its output file or not; when a file it
\* has to read is missing it fails and writes nothing.
Outcomes(inputs) ==
    IF inputs \subseteq files
    THEN [rc : {0, 1}, wrote : BOOLEAN]
    ELSE {[rc |-> 1, wrote |-> FALSE]}

\* the record of an executed stage
Stage(name, in, db, out, o) ==
    [stage |-> name, in |-> in, db |-> db, out |-> out,
     rc |-> o.rc, wrote |-> o.wrote]

\* a stage the script computes itself
Done == [rc |-> 0, wrote |-> TRUE]

Written(out, o) == IF o.wrote THEN files \cup {out} ELSE files

\* the OTU tables the table conversion may write: an empty file, a table
\* without the mock column, one with a single real OTU, one with three
PipeTables ==
    { [header |-> <<"">>, rows |-> <<>>],
      [header |-> <<"OTUId", "S1">>,
       rows |-> << <<OTU \o <<"1">>, <<"5">>>> >>],
      [header |-> <<"OTUId", MockLabel>>,
       rows |-> << <<<<"P", "s">>, <<"5">>>>, <<OTU \o <<"1">>, <<"5">>>> >>],
      [header |-> <<"OTUId", "S1", MockLabel>>,
       rows |-> << <<<<"P", "s">>, <<"7">>, <<"5">>>>,
                   <<<<"P", "a">>, <<"7">>, <<"1", "2">>>>,
                   <<<<"P", "b">>, <<"7">>, <<"0">>>>,
                   <<<<"P", "c">>, <<"7">>, <<"5">>>>,
                   <<OTU \o <<"1">>, <<"7">>, <<"5">>>> >>] }

pipeOthers == <<derepVars, cleanVars, annotVars, statsVars>>

Init ==
    /\ pc = "version"
    /\ args \in [unoise : BOOLEAN, uchime_ref : BOOLEAN, mock : BOOLEAN,
                 map_unfiltered : BOOLEAN]
    /\ size \in Sizes
    /\ usearchFound \in BOOLEAN
    /\ files = {FASTQ}
    /\ ran = <<>>
    /\ unoise_out = "" /\ uchime_out = ""
    /\ table = <<>>
    /\ result = "unset"
    /\ statsDone = FALSE
    /\ exitcode = -1
    /\ DerepIdle /\ CleanIdle /\ AnnotIdle /\ StatsIdle

\* lines 108-114: usearch -version
CheckUsearch ==
    /\ pc = "version"
    /\ IF usearchFound
       THEN pc' = "size" /\ UNCHANGED exitcode
       ELSE pc' = "no_usearch" /\ exitcode' = 1
    /\ UNCHANGED <<args, size, usearchFound, files, ran, unoise_out,
                   uchime_out, table, result, statsDone, pipeOthers>>

\* lines 116-124: the size guard
CheckSize ==
    /\ pc = "size"
    /\ IF SizeTooLarge(size)
       THEN pc' = "too_large" /\ exitcode' = 1
       ELSE pc' = "filter" /\ UNCHANGED exitcode
    /\ UNCHANGED <<args, size, usearchFound, files, ran, unoise_out,
                   uchime_out, table, result, statsDone, pipeOthers>>

\* lines 126-132: quality filtering; countfastq(filter_out) raises when the
\* file is missing
Filter ==
    /\ pc = "filter"
    /\ \E o \in Outcomes({FASTQ}) :
        /\ ran' = Append(ran, Stage("filter", FASTQ, "", filter_out, o))
        /\ files' = Written(filter_out, o)
        /\ IF o.wrote THEN pc' = "derep" /\ UNCHANGED exitcode
                      ELSE pc' = "raised" /\ exitcode' = 1
    /\ UNCHANGED <<args, size, usearchFound, unoise_out, uchime_out, table,
                   result, statsDone, pipeOthers>>

\* lines 134-139: dereplicate(filter_out, derep_out)
Dereplicate ==
    /\ pc = "derep"
    /\ ran' = Append(ran, Stage("dereplicate", filter_out, "", derep_out, Done))
    /\ files' = files \cup {derep_out}
    /\ pc' = "unoise"
    /\ UNCHANGED <<args, size, usearchFound, unoise_out, uchime_out, table,
                   result, statsDone, exitcode, pipeOthers>>

\* lines 141-148: de-noising, when asked for
Unoise ==
    /\ pc = "unoise"
    /\ args.unoise
    /\ \E o \in Outcomes({derep_out}) :
        /\ ran' = Append(ran, Stage("denoise", derep_out, "", denoised, o))
        /\ files' = Written(denoised, o)
        /\ IF o.wrote THEN pc' = "sort" /\ UNCHANGED exitcode
                      ELSE pc' = "raised" /\ exitcode' = 1
    /\ unoise_out' = denoised
    /\ UNCHANGED <<args, size, usearchFound, uchime_out, table, result,
                   statsDone, pipeOthers>>

\* lines 149-150: no de-noising
UnoiseSkipped ==
    /\ pc = "unoise"
    /\ ~args.unoise
    /\ unoise_out' = derep_out
    /\ pc' = "sort"
    /\ UNCHANGED <<args, size, usearchFound, files, ran, uchime_out, table,
                   result, statsDone, exitcode, pipeOthers>>

\* lines 152-156: sort by size; nothing is looked at afterwards
Sort ==
    /\ pc = "sort"
    /\ \E o \in Outcomes({unoise_out}) :
        /\ ran' = Append(ran, Stage("sort", unoise_out, "", sort_out, o))
        /\ files' = Written(sort_out, o)
    /\ pc' = "cluster"
    /\ UNCHANGED <<args, size, usearchFound, unoise_out, uchime_out, table,
                   result, statsDone, exitcode, pipeOthers>>

\* lines 158-169: clustering; countfasta(otu_out) raises when the file is
\* missing
Cluster ==
    /\ pc = "cluster"
    /\ \E o \in Outcomes({sort_out}) :
        /\ ran' = Append(ran, Stage("cluster", sort_out, "", otu_out, o))
        /\ files' = Written(otu_out, o)
        /\ IF o.wrote THEN pc' = "clean" /\ UNCHANGED exitcode
                      ELSE pc' = "raised" /\ exitcode' = 1
    /\ UNCHANGED <<args, size, usearchFound, unoise_out, uchime_out, table,
                   result, statsDone, pipeOthers>>

\* lines 171-183: the padding cleanup, from otu_out to otu_clean
CleanPadding ==
    /\ pc = "clean"
    /\ ran' = Append(ran, Stage("clean-padding", otu_out, "", otu_clean, Done))
    /\ files' = files \cup {otu_clean}
    /\ pc' = "uchime"
    /\ UNCHANGED <<args, size, usearchFound, unoise_out, uchime_out, table,
                   result, statsDone, exitcode, pipeOthers>>

\* line 199: the file handed to -uchime_ref
UchimeInput == otu_out

\* lines 186-187: no chimera filtering
UchimeSkipped ==
    /\ pc = "uchime"
    /\ ~args.uchime_ref
    /\ uchime_out' = otu_clean
    /\ pc' = "mock"
    /\ UNCHANGED <<args, size, usearchFound, files, ran, unoise_out, table,
                   result, statsDone, exitcode, pipeOthers>>

\* lines 188-201: chimera filtering; countfasta(uchime_out) raises when the
\* file is missing
Uchime ==
    /\ pc = "uchime"
    /\ args.uchime_ref
    /\ uchime_out' = uchime_fa
    /\ \E o \in Outcomes({UchimeInput}) :
        /\ ran' = Append(ran, Stage("chimera-filter", UchimeInput, "",
                                    uchime_fa, o))
        /\ files' = Written(uchime_fa, o)
        /\ IF o.wrote THEN pc' = "mock" /\ UNCHANGED exitcode
                      ELSE pc' = "raised" /\ exitcode' = 1
    /\ UNCHANGED <<args, size, usearchFound, unoise_out, table, result,
                   statsDone, pipeOthers>>

\* line 204: no mock community
MockSkipped ==
    /\ pc = "mock"
    /\ ~args.mock
    /\ pc' = "mapreads"
    /\ UNCHANGED <<args, size, usearchFound, files, ran, unoise_out,
                   uchime_out, table, result, statsDone, exitcode, pipeOthers>>

\* lines 204-220: the OTUs are mapped to the mock community; opening
\* mock_out raises when the file is missing
MockMap ==
    /\ pc = "mock"
    /\ args.mock
    /\ \E o \in Outcomes({uchime_out}) :
        /\ ran' = Append(ran, Stage("mock-mapping", uchime_out, "", mock_out, o))
        /\ files' = Written(mock_out, o)
        /\ IF o.wrote THEN pc' = "annotate" /\ UNCHANGED exitcode
                      ELSE pc' = "raised" /\ exitcode' = 1
    /\ UNCHANGED <<args, size, usearchFound, unoise_out, uchime_out, table,
                   result, statsDone, pipeOthers>>

\* lines 218-241: the headers are rewritten, from uchime_out to otu_new
MockAnnotate ==
    /\ pc = "annotate"
    /\ ran' = Append(ran, Stage("mock-annotate", uchime_out, "", otu_new, Done))
    /\ files' = files \cup {otu_new}
    /\ uchime_out' = otu_new
    /\ pc' = "mapreads"
    /\ UNCHANGED <<args, size, usearchFound, unoise_out, table, result,
                   statsDone, exitcode, pipeOthers>>

\* lines 243-251: the reads are mapped to the OTUs; nothing is looked at
\* afterwards
MapReads ==
    /\ pc = "mapreads"
    /\ LET reads == IF args.map_unfiltered THEN FASTQ ELSE filter_out IN
       \E o \in Outcomes({reads, uchime_out}) :
        /\ ran' = Append(ran, Stage("map-reads", reads, uchime_out, uc_out, o))
        /\ files' = Written(uc_out, o)
    /\ pc' = "table"
    /\ UNCHANGED <<args, size, usearchFound, unoise_out, uchime_out, table,
                   result, statsDone, exitcode, pipeOthers>>

\* lines 253-258: the table conversion; nothing is looked at afterwards
BuildTable ==
    /\ pc = "table"
    /\ \E o \in Outcomes({uc_out}) :
        /\ ran' = Append(ran, Stage("build-table", uc_out, "", otu_table, o))
        /\ files' = Written(otu_table, o)
        /\ IF o.wrote THEN table' \in PipeTables ELSE UNCHANGED table
    /\ pc' = "mockcheck"
    /\ UNCHANGED <<args, size, usearchFound, unoise_out, uchime_out, result,
                   statsDone, exitcode, pipeOthers>>

\* line 260: no mock community, nothing to check
MockCheckSkipped ==
    /\ pc = "mockcheck"
    /\ ~args.mock
    /\ pc' = "stats"
    /\ UNCHANGED <<args, size, usearchFound, files, ran, unoise_out,
                   uchime_out, table, result, statsDone, exitcode, pipeOthers>>

\* lines 260-269: the mock label is looked up in the first line of the
\* table; opening otu_table raises when the file is missing
MockCheck ==
    /\ pc = "mockcheck"
    /\ args.mock
    /\ IF otu_table \notin files
       THEN pc' = "raised" /\ exitcode' = 1 /\ UNCHANGED result
       ELSE /\ result' = IF ~MockInHeader(table.header, MockLabel)
                         THEN "fail" ELSE "pass"
            /\ pc' = "stats"
            /\ UNCHANGED exitcode
    /\ UNCHANGED <<args, size, usearchFound, files, ran, unoise_out,
                   uchime_out, table, statsDone, pipeOthers>>

\* a slip that runs the statistics whatever the check found
RunStatsUnchecked(mock, res) == mock

\* line 272: args.mock != "False" and result != 'fail'
RunStats(mock, res) == mock /\ res # "fail"

\* lines 272-322 raise IndexError when a kept row has no abundance cell
\* (line 290) or when one or two real OTUs were found (line 308)
StatsRaise(rs) ==
    IF \E i \in 1..Len(rs) : Len(rs[i]) < 2 THEN TRUE
    ELSE GoodReportRaises(Aggregate(rs).mock_found)

\* line 272: no statistics
MockStatsSkipped ==
    /\ pc = "stats"
    /\ ~RunStats(args.mock, result)
    /\ pc' = "report"
    /\ UNCHANGED <<args, size, usearchFound, files, ran, unoise_out,
                   uchime_out, table, result, statsDone, exitcode, pipeOthers>>

\* lines 272-322: the statistics; mock_out is removed at their end
MockStats ==
    /\ pc = "stats"
    /\ RunStats(args.mock, result)
    /\ LET keep == KeepColumns(table.header, MockLabel)
           rs == [i \in 1..Len(table.rows) |-> KeepCells(table.rows[i], keep)]
       IN IF StatsRaise(rs)
          THEN pc' = "raised" /\ exitcode' = 1
               /\ UNCHANGED <<files, statsDone>>
          ELSE pc' = "report" /\ statsDone' = TRUE
               /\ files' = files \ {mock_out} /\ UNCHANGED exitcode
    /\ UNCHANGED <<args, size, usearchFound, ran, unoise_out, uchime_out,
                   table, result, pipeOthers>>

\* lines 324-338: the final report; the script ends
Report ==
    /\ pc = "report"
    /\ pc' = "done"
    /\ exitcode' = 0
    /\ UNCHANGED <<args, size, usearchFound, files, ran, unoise_out,
                   uchime_out, table, result, statsDone, pipeOthers>>

Next ==
    \/ CheckUsearch \/ CheckSize \/ Filter \/ Dereplicate
    \/ Unoise \/ UnoiseSkipped \/ Sort \/ Cluster \/ CleanPadding
    \/ UchimeSkipped \/ Uchime \/ MockSkipped \/ MockMap \/ MockAnnotate
    \/ MapReads \/ BuildTable \/ MockCheckSkipped \/ MockCheck
    \/ MockStatsSkipped \/ MockStats \/ Report

Spec == Init /\ [][Next]_vars

\* ---- the claims about the orchestration ----

\* C1: a stage whose invocation returned non-zero, or did not write its
\* output file, is the last stage executed: every stage that was followed
\* by another one had returned 0 and written its file.
C1_FailedStageHalts ==
    \A i \in 1..(Len(ran) - 1) : ran[i].rc = 0 /\ ran[i].wrote

\* the stages that write an OTU file, and those that read one
OtuWriters == {"cluster", "clean-padding", "chimera-filter", "mock-annotate"}
OtuReaders == {"clean-padding", "chimera-filter", "mock-mapping",
               "mock-annotate", "map-reads"}

\* the OTU file a stage read
OtuInput(r) == IF r.stage = "map-reads" THEN r.db ELSE r.in

\* the last stage before the j-th that wrote an OTU file
LastOtuWriter(j) ==
    CHOOSE k \in 1..(j - 1) :
        /\ ran[k].stage \in OtuWriters
        /\ \A m \in (k + 1)..(j - 1) : ran[m].stage \notin OtuWriters

\* C2: every stage of the chain cluster, clean-padding, chimera-filter,
\* mock-annotate, map-reads reads as its OTU input the file written by the
\* most recent executed stage before it in the chain.
C2_ReadsLatestOtuFile ==
    \A j \in 1..Len(ran) :
        ran[j].stage \in OtuReaders =>
            OtuInput(ran[j]) = ran[LastOtuWriter(j)].out

\* C5: once the size guard is passed, the run has stopped there with exit
\* status 1, no stage executed and no stage output written, exactly when
\* the input file holds 4294967296 bytes or more.
C5_SizeGuard ==
    pc \notin {"version", "no_usearch", "size"} =>
        IF size[1] >= 65536
        THEN pc = "too_large" /\ exitcode = 1 /\ ran = <<>> /\ files = {FASTQ}
        ELSE pc # "too_large"

C5_Witness == pc = "too_large" /\ size = <<65536, 0>>

\* C9: when mock evaluation is requested and the mock label is not a column
\* of the table, the statistics are not run, nothing raises, and the run
\* ends with the report, exit status 0, and the stage outputs on disk.
C9_MissingLabelSkipsStats ==
    (args.mock /\ result = "fail") =>
        /\ ~MockInHeader(table.header, MockLabel)
        /\ pc \in {"stats", "report", "done"}
        /\ ~statsDone
        /\ exitcode \in {-1, 0}
        /\ pc = "done" =>
             /\ exitcode = 0
             /\ {filter_out, derep_out, sort_out, otu_out, otu_clean, uc_out,
                 otu_table} \subseteq files

C9_Witness ==
    /\ pc = "done" /\ exitcode = 0
    /\ args.mock /\ args.uchime_ref /\ args.unoise
    /\ result = "fail"
    /\ table.header = <<"OTUId", "S1">>

=============================================================================
